---- MODULE Spec2Model ----
(***************************************************************************)
(* Model of Leaderboard.cpp and PlayerStream.cpp: the two offline top-10%  *)
(* selectors (Offline::heapRank, Offline::quickSelectRank with partition   *)
(* and quickSelect), the streaming selector (Online::rankIncoming with     *)
(* Online::replaceMin) and the VectorPlayerStream cursor.                  *)
(*                                                                         *)
(* Indices are kept 0-based as in the source; a vector v of the program is *)
(* a TLA+ sequence s with v[i] = s[i+1].                                   *)
(***************************************************************************)
EXTENDS Integers, Sequences, FiniteSets

VARIABLES
    sel,                \* which entry point this run calls
    input,              \* the collection / stream contents as handed in
    players,            \* the (mutable) collection; players_ of the stream
    pc,                 \* position in the running function
    i,                  \* heapRank: loop counter of the pop loop
    tenPer,             \* heapRank / quickSelectRank: floor(0.1 * size)
    cutoffIndex,        \* quickSelectRank: size - tenPer
    left, right,        \* quickSelect: current range; partition: low, high
    pivotIndex,         \* last value returned by partition
    oob,                \* an index outside [0, size-1] was handed to partition
    reporting_interval, \* rankIncoming: the capacity k
    currentIndex,       \* VectorPlayerStream::currentIndex_
    top_players,        \* rankIncoming: the buffer
    cutoffs,            \* rankIncoming: the local checkpoint map
    players_processed,  \* rankIncoming: the running count
    top_,               \* RankingResult::top_
    cutoffs_            \* RankingResult::cutoffs_

vars == <<sel, input, players, pc, i, tenPer, cutoffIndex, left, right,
          pivotIndex, oob, reporting_interval, currentIndex, top_players,
          cutoffs, players_processed, top_, cutoffs_>>

----------------------------------------------------------------------------
(* Bounds of the model *)

\* longest collection of the exhaustively enumerated inputs
MaxLen == 4
\* greatest level of the exhaustively enumerated inputs
MaxLevel == 3
\* longest collection of the generated inputs (20 and more give tenPer = 2)
MaxN == 21
\* greatest capacity handed to rankIncoming
MaxK == 3

\* generated inputs: level of position j is ((stride * j) % modulus) + 1
Strides == {0, 1, 5, 22}
Moduli == {3, 7, 23}

----------------------------------------------------------------------------
(* Inputs *)

RECURSIVE SeqsOfLen(_, _)
SeqsOfLen(S, n) ==
    IF n = 0 THEN {<<>>}
    ELSE {Append(s, x) : s \in SeqsOfLen(S, n - 1), x \in S}

SmallInputs == UNION {SeqsOfLen(1..MaxLevel, n) : n \in 0..MaxLen}

Gen(n, stride, modulus) == [j \in 1..n |-> ((stride * (j - 1)) % modulus) + 1]

GenInputs == {Gen(n, a, m) : n \in 0..MaxN, a \in Strides, m \in Moduli}

ScenarioInputs == { <<3, 1, 4, 1, 5, 9, 2, 6>>,
                    <<1, 2, 3, 4, 5, 6, 7, 8, 9, 10>>,
                    <<5, 1, 9, 2, 8, 3>> }

Inputs == SmallInputs \cup GenInputs \cup ScenarioInputs

\* A Player: the ordering key level_ and the rest of the object (here the
\* position it had in the input, which tells equal-level players apart).
MkPlayers(levels) == [j \in 1..Len(levels) |-> [level |-> levels[j], id |-> j]]

EmptyMap == [x \in {} |-> 0]

Put(m, key, val) == [x \in (DOMAIN m) \cup {key} |-> IF x = key THEN val ELSE m[x]]

----------------------------------------------------------------------------
(* Comparisons *)

\* Player::operator< : players compare by level_
PlayerLess(a, b) == a.level < b.level

\* the comparators handed to the standard algorithms
\*   "less"    : operator<  (make_heap/pop_heap in heapRank, sort in quickSelectRank)
\*   "greater" : [](a, b) { return a.level_ > b.level_; }   (min-heap)
\*   "lessLvl" : [](a, b) { return a.level_ < b.level_; }   (final sort)
Comp(cmp, a, b) ==
    CASE cmp = "less"    -> PlayerLess(a, b)
      [] cmp = "greater" -> a.level > b.level
      [] cmp = "lessLvl" -> a.level < b.level

Swap(s, a, b) == [s EXCEPT ![a + 1] = s[b + 1], ![b + 1] = s[a + 1]]

----------------------------------------------------------------------------
(* The standard heap and sort algorithms, on the first n elements *)

RECURSIVE SiftDown(_, _, _, _)
SiftDown(s, n, cur, cmp) ==
    LET l == 2 * cur + 1
        r == 2 * cur + 2
        b1 == IF l < n /\ Comp(cmp, s[cur + 1], s[l + 1]) THEN l ELSE cur
        b2 == IF r < n /\ Comp(cmp, s[b1 + 1], s[r + 1]) THEN r ELSE b1
    IN  IF b2 = cur THEN s ELSE SiftDown(Swap(s, cur, b2), n, b2, cmp)

RECURSIVE HeapifyFrom(_, _, _)
HeapifyFrom(s, cur, cmp) ==
    IF cur < 0 THEN s
    ELSE HeapifyFrom(SiftDown(s, Len(s), cur, cmp), cur - 1, cmp)

MakeHeapId(s, cmp) == s

\* std::make_heap(begin, end, cmp)
MakeHeap(s, cmp) ==
    IF Len(s) < 2 THEN s ELSE HeapifyFrom(s, (Len(s) - 2) \div 2, cmp)

PopHeapNoSift(s, n, cmp) == IF n < 2 THEN s ELSE Swap(s, 0, n - 1)

\* std::pop_heap(begin, begin + n, cmp): the root goes to position n-1 and
\* the first n-1 elements are a heap again
PopHeap(s, n, cmp) ==
    IF n < 2 THEN s ELSE SiftDown(Swap(s, 0, n - 1), n - 1, 0, cmp)

RECURSIVE Insert(_, _, _)
Insert(sorted, x, cmp) ==
    IF sorted = <<>> THEN <<x>>
    ELSE IF Comp(cmp, x, Head(sorted)) THEN <<x>> \o sorted
    ELSE <<Head(sorted)>> \o Insert(Tail(sorted), x, cmp)

RECURSIVE InsertionSort(_, _)
InsertionSort(s, cmp) ==
    IF s = <<>> THEN <<>>
    ELSE Insert(InsertionSort(SubSeq(s, 1, Len(s) - 1), cmp), s[Len(s)], cmp)

\* std::sort(begin, end, cmp)
StdSort(s, cmp) == InsertionSort(s, cmp)

----------------------------------------------------------------------------
(* Offline::heapRank and Offline::quickSelectRank: the cut *)

TenPerCeil(n) == (n + 9) \div 10

\* size_t tenPer = std::floor(0.1 * players.size());
\* 0.1 * n in double is never below n/10 and exceeds it by far less than
\* 1/10 for any n a vector can hold, so the floor is the integer quotient.
TenPer(n) == n \div 10

\* size_t cutoffIndex = players.size() - tenPer;
CutoffIndex(n) == n - TenPer(n)

----------------------------------------------------------------------------
(* Offline::partition *)

PartitionKeepStrict(x, pivot) == x.level > pivot.level

\* if (players[it].level_ >= pivot.level_)
PartitionKeep(x, pivot) == x.level >= pivot.level

RECURSIVE PartitionScan(_, _, _, _, _)
PartitionScan(s, it, high, k, pivot) ==
    IF it > high - 1
    THEN [players |-> Swap(s, k + 1, high), index |-> k + 1]
    ELSE IF PartitionKeep(s[it + 1], pivot)
         THEN PartitionScan(Swap(s, k + 1, it), it + 1, high, k + 1, pivot)
         ELSE PartitionScan(s, it + 1, high, k, pivot)

Partition(s, low, high) == PartitionScan(s, low, high, low - 1, s[high + 1])

----------------------------------------------------------------------------
(* Online::replaceMin *)

RECURSIVE ReplaceMinLoop(_, _, _)
ReplaceMinLoop(s, heapSize, currentPlayer) ==
    LET l == 2 * currentPlayer + 1
        r == 2 * currentPlayer + 2
        s1 == IF l < heapSize /\ s[l + 1].level < s[currentPlayer + 1].level
              THEN l ELSE currentPlayer
        smallest == IF r < heapSize /\ s[r + 1].level < s[s1 + 1].level
                    THEN r ELSE s1
    IN  IF smallest = currentPlayer THEN s
        ELSE ReplaceMinLoop(Swap(s, currentPlayer, smallest), heapSize, smallest)

ReplaceMinNoSift(s, target) == [s EXCEPT ![1] = target]

ReplaceMin(s, target) == ReplaceMinLoop([s EXCEPT ![1] = target], Len(s), 0)

AdmitBelow(p, root) == p.level < root.level

AdmitAlways(p, root) == TRUE

\* else if (p.level_ > top_players.front().level_)
Admit(p, root) == p.level > root.level

----------------------------------------------------------------------------
(* VectorPlayerStream *)

\* size_t VectorPlayerStream::remaining() const
Remaining == Len(players) - currentIndex

----------------------------------------------------------------------------
(* Initial states: one call of one entry point on one input *)

Selectors == {"heap", "quick", "stream", "partition"}

InitCommon(lv) ==
    /\ input = MkPlayers(lv)
    /\ players = input
    /\ i = 0
    /\ tenPer = 0
    /\ cutoffIndex = 0
    /\ pivotIndex = -1
    /\ oob = FALSE
    /\ currentIndex = 0
    /\ top_players = <<>>
    /\ cutoffs = EmptyMap
    /\ players_processed = 0
    /\ top_ = <<>>
    /\ cutoffs_ = EmptyMap

\* Offline::heapRank(players) is about to run
InitHeap ==
    \E lv \in Inputs :
        /\ InitCommon(lv)
        /\ sel = "heap" /\ pc = "start"
        /\ left = 0 /\ right = 0 /\ reporting_interval = 0

\* Offline::quickSelectRank(players) is about to run
InitQuick ==
    \E lv \in Inputs :
        /\ InitCommon(lv)
        /\ sel = "quick" /\ pc = "start"
        /\ left = 0 /\ right = 0 /\ reporting_interval = 0

\* Offline::partition(players, low, high) is about to run, 0 <= low <= high < size
InitPartition ==
    \E lv \in Inputs :
        \E low \in 0..(Len(lv) - 1) :
            \E high \in low..(Len(lv) - 1) :
                /\ InitCommon(lv)
                /\ sel = "partition" /\ pc = "call"
                /\ left = low /\ right = high /\ reporting_interval = 0

\* VectorPlayerStream(players) is constructed and Online::rankIncoming(stream, k)
\* has initialised its locals (top_players, cutoffs, players_processed)
InitStream ==
    \E lv \in Inputs :
        \E k \in 0..MaxK :
            /\ InitCommon(lv)
            /\ sel = "stream" /\ pc = "loop"
            /\ left = 0 /\ right = 0 /\ reporting_interval = k

Init == InitHeap \/ InitQuick \/ InitPartition \/ InitStream

----------------------------------------------------------------------------
(* Offline::heapRank *)

HeapMake ==
    /\ sel = "heap" /\ pc = "start"
    /\ tenPer' = TenPer(Len(players))
    /\ players' = MakeHeap(players, "less")
    /\ i' = 0
    /\ pc' = "pop"
    /\ UNCHANGED <<sel, input, cutoffIndex, left, right, pivotIndex, oob,
                   reporting_interval, currentIndex, top_players, cutoffs,
                   players_processed, top_, cutoffs_>>

\* one iteration of  for (i = 0; i < tenPer; ++i) pop_heap(begin, end - i)
HeapPop ==
    /\ sel = "heap" /\ pc = "pop"
    /\ i < tenPer
    /\ players' = PopHeap(players, Len(players) - i, "less")
    /\ i' = i + 1
    /\ UNCHANGED <<sel, input, pc, tenPer, cutoffIndex, left, right, pivotIndex,
                   oob, reporting_interval, currentIndex, top_players, cutoffs,
                   players_processed, top_, cutoffs_>>

HeapReturn ==
    /\ sel = "heap" /\ pc = "pop"
    /\ ~(i < tenPer)
    /\ top_' = SubSeq(players, Len(players) - tenPer + 1, Len(players))
    /\ cutoffs_' = EmptyMap
    /\ pc' = "done"
    /\ UNCHANGED <<sel, input, players, i, tenPer, cutoffIndex, left, right,
                   pivotIndex, oob, reporting_interval, currentIndex,
                   top_players, cutoffs, players_processed>>

----------------------------------------------------------------------------
(* Offline::quickSelectRank and Offline::quickSelect *)

\* quickSelect(players, 0, players.size() - 1, cutoffIndex): the size_t
\* players.size() - 1 wraps to 2^64 - 1 for an empty vector and narrows to
\* the int -1, so the int handed over is size - 1 in every case.
QuickStart ==
    /\ sel = "quick" /\ pc = "start"
    /\ tenPer' = TenPer(Len(players))
    /\ cutoffIndex' = CutoffIndex(Len(players))
    /\ left' = 0
    /\ right' = Len(players) - 1
    /\ pc' = "select"
    /\ UNCHANGED <<sel, input, players, i, pivotIndex, oob, reporting_interval,
                   currentIndex, top_players, cutoffs, players_processed,
                   top_, cutoffs_>>

\* the three-way branch of quickSelect on the pivot's position
NextRange(l, r, p, cut) ==
    IF p = cut THEN [left |-> l, right |-> r, found |-> TRUE]
    ELSE IF p > cut THEN [left |-> l, right |-> p - 1, found |-> FALSE]
    ELSE [left |-> p + 1, right |-> r, found |-> FALSE]

\* one iteration of  while (left <= right)
QuickSelectStep ==
    /\ sel = "quick" /\ pc = "select"
    /\ left <= right
    /\ IF 0 <= left /\ right <= Len(players) - 1
       THEN LET res == Partition(players, left, right)
                nxt == NextRange(left, right, res.index, cutoffIndex)
            IN  /\ players' = res.players
                /\ pivotIndex' = res.index
                /\ left' = nxt.left
                /\ right' = nxt.right
                /\ pc' = IF nxt.found THEN "sort" ELSE "select"
                /\ oob' = oob
       ELSE /\ oob' = TRUE
            /\ pc' = "crashed"
            /\ UNCHANGED <<players, pivotIndex, left, right>>
    /\ UNCHANGED <<sel, input, i, tenPer, cutoffIndex, reporting_interval,
                   currentIndex, top_players, cutoffs, players_processed,
                   top_, cutoffs_>>

\* the loop of quickSelect ends by left > right
QuickSelectExit ==
    /\ sel = "quick" /\ pc = "select"
    /\ ~(left <= right)
    /\ pc' = "sort"
    /\ UNCHANGED <<sel, input, players, i, tenPer, cutoffIndex, left, right,
                   pivotIndex, oob, reporting_interval, currentIndex,
                   top_players, cutoffs, players_processed, top_, cutoffs_>>

\* std::sort(begin + cutoffIndex, end); top is the sorted tail
QuickSortReturn ==
    /\ sel = "quick" /\ pc = "sort"
    /\ LET n == Len(players)
           tail == StdSort(SubSeq(players, cutoffIndex + 1, n), "less")
       IN  /\ players' = SubSeq(players, 1, cutoffIndex) \o tail
           /\ top_' = tail
    /\ cutoffs_' = EmptyMap
    /\ pc' = "done"
    /\ UNCHANGED <<sel, input, i, tenPer, cutoffIndex, left, right, pivotIndex,
                   oob, reporting_interval, currentIndex, top_players, cutoffs,
                   players_processed>>

----------------------------------------------------------------------------
(* Offline::partition called on its own *)

PartitionCall ==
    /\ sel = "partition" /\ pc = "call"
    /\ LET res == Partition(players, left, right)
       IN  /\ players' = res.players
           /\ pivotIndex' = res.index
    /\ pc' = "done"
    /\ UNCHANGED <<sel, input, i, tenPer, cutoffIndex, left, right, oob,
                   reporting_interval, currentIndex, top_players, cutoffs,
                   players_processed, top_, cutoffs_>>

----------------------------------------------------------------------------
(* Online::rankIncoming *)

\* the buffer after one player p went through lines 165-174
Buffer(buf, p, k) ==
    IF Len(buf) < k
    THEN LET pushed == Append(buf, p)
         IN  IF Len(pushed) = k THEN MakeHeap(pushed, "greater") ELSE pushed
    ELSE IF Admit(p, buf[1]) THEN ReplaceMin(buf, p) ELSE buf

\* one iteration of  while (stream.remaining() > 0), capacity >= 1
RankStep ==
    /\ sel = "stream" /\ pc = "loop"
    /\ reporting_interval >= 1
    /\ Remaining > 0
    /\ LET p == players[currentIndex + 1]
           n == players_processed + 1
           buf == Buffer(top_players, p, reporting_interval)
       IN  /\ currentIndex' = currentIndex + 1
           /\ players_processed' = n
           /\ top_players' = buf
           /\ cutoffs' = IF n % reporting_interval = 0
                         THEN Put(cutoffs, n, buf[1].level)
                         ELSE cutoffs
    /\ UNCHANGED <<sel, input, players, pc, i, tenPer, cutoffIndex, left, right,
                   pivotIndex, oob, reporting_interval, top_, cutoffs_>>

\* one iteration of the loop with capacity 0.  nextPlayer() has advanced the
\* cursor; top_players.size() < 0 is false, so line 172 reads front() of an
\* empty vector and line 176 computes players_processed % 0: undefined
\* behaviour both.  The builds either trap there or carry on with the buffer
\* and the map as they were.
RankStepZero ==
    /\ sel = "stream" /\ pc = "loop"
    /\ reporting_interval = 0
    /\ Remaining > 0
    /\ currentIndex' = currentIndex + 1
    /\ players_processed' = players_processed + 1
    /\ \E outcome \in {"crashed", "loop"} : pc' = outcome
    /\ UNCHANGED <<sel, input, players, i, tenPer, cutoffIndex, left, right,
                   pivotIndex, oob, reporting_interval, top_players, cutoffs,
                   top_, cutoffs_>>

\* the loop has ended: final checkpoint, sort, return
RankFinish ==
    /\ sel = "stream" /\ pc = "loop"
    /\ ~(Remaining > 0)
    /\ LET final == IF top_players # <<>>
                    THEN Put(cutoffs, players_processed, top_players[1].level)
                    ELSE cutoffs
           sorted == StdSort(top_players, "lessLvl")
       IN  /\ cutoffs' = final
           /\ top_players' = sorted
           /\ top_' = sorted
           /\ cutoffs_' = final
    /\ pc' = "done"
    /\ UNCHANGED <<sel, input, players, i, tenPer, cutoffIndex, left, right,
                   pivotIndex, oob, reporting_interval, currentIndex,
                   players_processed>>

----------------------------------------------------------------------------

Next ==
    \/ HeapMake
    \/ HeapPop
    \/ HeapReturn
    \/ QuickStart
    \/ QuickSelectStep
    \/ QuickSelectExit
    \/ QuickSortReturn
    \/ PartitionCall
    \/ RankStep
    \/ RankStepZero
    \/ RankFinish

Spec == Init /\ [][Next]_vars

\* every entry point is a synchronous call that runs until it returns or traps
FairSpec == Init /\ [][Next]_vars /\ WF_vars(Next)

----------------------------------------------------------------------------
(* Vocabulary of the properties *)

LevelsOf(s) == [j \in DOMAIN s |-> s[j].level]

LevelSet(s) == {s[j].level : j \in DOMAIN s}

Count(s, v) == Cardinality({j \in DOMAIN s : s[j].level = v})

CountGreater(s, v) == Cardinality({j \in DOMAIN s : s[j].level > v})

Min2(a, b) == IF a < b THEN a ELSE b

Max2(a, b) == IF a > b THEN a ELSE b

\* t holds, as a multiset of levels, the k greatest levels of s
IsTopK(t, s, k) ==
    /\ Len(t) = k
    /\ \A v \in LevelSet(s) \cup LevelSet(t) :
           Count(t, v) = Min2(Count(s, v), Max2(0, k - CountGreater(s, v)))

\* the k-th greatest level of s (Len(s) >= k >= 1)
KthGreatest(s, k) ==
    CHOOSE v \in LevelSet(s) :
        CountGreater(s, v) < k /\ CountGreater(s, v) + Count(s, v) >= k

MinLevel(s) == CHOOSE v \in LevelSet(s) : \A w \in LevelSet(s) : v <= w

Ascending(t) == \A j \in 1..(Len(t) - 1) : t[j].level <= t[j + 1].level

Prefix(s, c) == SubSeq(s, 1, c)

StreamReturned == sel = "stream" /\ reporting_interval >= 1 /\ pc = "done"

----------------------------------------------------------------------------
(* The claims *)

\* C1: quickSelectRank returns, as a multiset of levels, the floor(0.1*N)
\* greatest levels of the input; for the levels 1..10 it returns <<10>>.
\* (The code returns the floor(0.1*N) least levels: for 1..10 it returns <<1>>.)
C1_QuickSelectTopIsGreatest ==
    (sel = "quick" /\ pc = "done") => IsTopK(top_, input, Len(input) \div 10)

\* C2: heapRank returns exactly floor(0.1*N) players, the trailing
\* floor(0.1*N) positions of the collection after the pops, and their levels
\* are the floor(0.1*N) greatest levels of the input.
C2_HeapTopIsGreatest ==
    (sel = "heap" /\ pc = "done") =>
        LET k == Len(input) \div 10
        IN  /\ IsTopK(top_, input, k)
            /\ top_ = SubSeq(players, Len(players) - k + 1, Len(players))

C2_Witness ==
    /\ sel = "heap" /\ pc = "done"
    /\ Len(top_) = 2
    /\ top_[1].level # top_[2].level
    /\ top_[2].level # input[Len(input)].level
    /\ top_[1].level # input[Len(input) - 1].level

\* C3: for capacity k >= 1, rankIncoming returns min(k, total) players whose
\* levels are the min(k, total) greatest levels of all players seen.
C3_StreamTopIsGreatest ==
    StreamReturned =>
        /\ players_processed = Len(input)
        /\ IsTopK(top_, input, Min2(reporting_interval, Len(input)))

C3_Witness ==
    /\ StreamReturned
    /\ reporting_interval = 3
    /\ LevelsOf(input) = <<5, 1, 9, 2, 8, 3>>
    /\ LevelsOf(top_) = <<5, 8, 9>>

\* C4: for capacity k >= 1, every checkpoint at a positive multiple c of k
\* (c <= processed count) is the k-th greatest level of the first c arrivals,
\* and the root of a full buffer is the least level in the buffer.
C4_CheckpointIsKthGreatest ==
    (sel = "stream" /\ reporting_interval >= 1) =>
        /\ \A c \in DOMAIN cutoffs :
               (c > 0 /\ c % reporting_interval = 0 /\ c <= players_processed) =>
                   cutoffs[c] = KthGreatest(Prefix(input, c), reporting_interval)
        /\ (pc = "loop" /\ Len(top_players) = reporting_interval) =>
               top_players[1].level = MinLevel(top_players)
        /\ pc = "done" =>
               \A c \in DOMAIN cutoffs_ :
                   (c > 0 /\ c % reporting_interval = 0 /\ c <= Len(input)) =>
                       cutoffs_[c] = KthGreatest(Prefix(input, c), reporting_interval)

C4_Witness ==
    /\ StreamReturned
    /\ reporting_interval = 3
    /\ LevelsOf(input) = <<5, 1, 9, 2, 8, 3>>
    /\ DOMAIN cutoffs_ = {3, 6}
    /\ cutoffs_[3] = 1
    /\ cutoffs_[6] = 5

\* C5: for a non-empty stream and capacity k >= 1, the returned checkpoints
\* hold the key total, and its value is the least level retained in the
\* buffer, also when the stream is shorter than k.
\* (The code records front() of a buffer it never made a heap.)
C5_FinalCheckpointIsMin ==
    (StreamReturned /\ Len(input) > 0) =>
        /\ Len(input) \in DOMAIN cutoffs_
        /\ cutoffs_[Len(input)] = MinLevel(top_)

\* C6: with capacity 0, rankIncoming fails before consuming any player: the
\* source's remaining() is unchanged and no result is returned.
\* (The code has no capacity check.)
C6_ZeroCapacityRejected ==
    (sel = "stream" /\ reporting_interval = 0) =>
        /\ Remaining = Len(input)
        /\ pc # "done"

\* C7: the top returned by heapRank, quickSelectRank and rankIncoming
\* (capacity >= 1) is sorted ascending by level.
C7_TopAscending ==
    (pc = "done" /\ (sel \in {"heap", "quick"} \/ StreamReturned)) =>
        Ascending(top_)

C7_Witness ==
    /\ sel = "heap" /\ pc = "done"
    /\ Len(top_) = 2
    /\ top_[1].level < top_[2].level
    /\ \E j \in 1..(Len(input) - 1) : input[j].level > input[j + 1].level

\* C8: for capacity k >= 1 the returned checkpoint values are non-decreasing
\* in the processed count.
C8_CheckpointsNonDecreasing ==
    StreamReturned =>
        \A c1, c2 \in DOMAIN cutoffs_ : c1 < c2 => cutoffs_[c1] <= cutoffs_[c2]

C8_Witness ==
    /\ StreamReturned
    /\ \E c1, c2, c3 \in DOMAIN cutoffs_ :
           /\ c1 < c2 /\ c2 < c3
           /\ cutoffs_[c1] < cutoffs_[c2]
           /\ c3 = Len(input) /\ c3 % reporting_interval # 0

SmallOffline == sel \in {"heap", "quick"} /\ Len(input) < 10

\* what C9 says of one state of an offline call on fewer than 10 players
SmallOfflineOk ==
    /\ ~oob
    /\ pc \in {"start", "pop", "select", "sort", "done"}
    /\ (sel = "quick" /\ pc = "select" /\ left <= right) =>
           (0 <= left /\ right <= Len(input) - 1)
    /\ (sel = "quick" /\ pc = "sort") =>
           (left > right /\ cutoffIndex = Len(input))
    /\ pc = "done" => (top_ = <<>> /\ cutoffs_ = EmptyMap)

\* the number of steps an offline call can still take, at most
OfflineMeasure ==
    CASE pc = "start"  -> Len(input) + 3
      [] pc = "pop"    -> (tenPer - i) + 1
      [] pc = "select" -> IF left <= right THEN (right - left) + 3 ELSE 2
      [] pc = "sort"   -> 1
      [] OTHER         -> 0

\* C9: for N < 10 (N = 0 included) both offline selectors end without error
\* with an empty top and empty checkpoints; quickSelect never hands partition
\* an index outside [0, N-1] and its loop ends by left > right.  Termination:
\* every step of the call strictly lowers a natural-valued measure, and every
\* iteration of quickSelect's loop strictly shrinks the range [left, right].
C9_SmallInputEmptyTop ==
    [][SmallOffline =>
          /\ SmallOfflineOk
          /\ SmallOfflineOk'
          /\ OfflineMeasure' >= 0
          /\ OfflineMeasure' < OfflineMeasure
          /\ QuickSelectStep => (right' - left' < right - left)]_vars

C9_Witness ==
    /\ sel = "quick" /\ pc = "done"
    /\ LevelsOf(input) = <<3, 1, 4, 1, 5, 9, 2, 6>>
    /\ pivotIndex >= 0
    /\ left = Len(input) /\ right = Len(input) - 1
    /\ top_ = <<>>

====
